---------------------------- MODULE Spec2Model ----------------------------
(***************************************************************************)
(* ICT trading agent: pattern detection, signal generation, risk           *)
(* validation and the backtest loop (src/src/*.py).                        *)
(*                                                                         *)
(* Numbers.  The program computes with Python floats; the model computes   *)
(* with exact rationals <<n, d>> (d > 0, lowest terms), i.e. float         *)
(* rounding is not modelled.  Prices and volumes of bars are integers.     *)
(* Sequences.  Python lists and DataFrames are 0-based; a bar series is a  *)
(* TLA+ sequence and At(s, k) is the element with Python index k.          *)
(***************************************************************************)
EXTENDS Integers, Sequences, FiniteSets, TLC

VARIABLES
    pc,            \* position of run_backtest: start, equity, exits, entry, final, report, done, error
    df,            \* the bar series get_historical_data returned
    i,             \* loop index of run_backtest (bar index)
    capital,       \* cash
    positions,     \* open positions (list)
    trades,        \* trade log (list)
    equity_curve,  \* equity samples (list)
    signals,       \* the list generate_signals returned in the current bar
    result,        \* the value run_backtest returned
    opened,        \* history: number of positions.append calls
    run,           \* which invocation of run_backtest this is (1 or 2)
    first,         \* what the first invocation produced (signals per bar, result)
    siglog,        \* signals generated per bar in this invocation
    vt,            \* last validate_trade call: inputs and returned pair
    call,          \* last call of a pure operation: its name, arguments and outcome
    earlier        \* the call before it

vars == <<pc, df, i, capital, positions, trades, equity_curve, signals,
          result, opened, run, first, siglog, vt, call, earlier>>

-----------------------------------------------------------------------------
(* Exact rational arithmetic standing for float arithmetic *)

Abs(x) == IF x < 0 THEN -x ELSE x

RECURSIVE GCD(_, _)
GCD(a, b) == IF b = 0 THEN a ELSE GCD(b, a % b)

Rat(n, d) ==
    LET g == GCD(Abs(n), Abs(d))
        s == IF d < 0 THEN -1 ELSE 1
    IN  <<(s * n) \div g, (s * d) \div g>>

R(n) == <<n, 1>>

LCM(a, b) == (a \div GCD(a, b)) * b

RAdd(a, b) ==
    LET l == LCM(a[2], b[2])
    IN  Rat(a[1] * (l \div a[2]) + b[1] * (l \div b[2]), l)

RNeg(a) == <<-a[1], a[2]>>

RSub(a, b) == RAdd(a, RNeg(b))

RMul(a, b) ==
    LET g1 == GCD(Abs(a[1]), b[2])
        g2 == GCD(Abs(b[1]), a[2])
        h1 == IF g1 = 0 THEN 1 ELSE g1
        h2 == IF g2 = 0 THEN 1 ELSE g2
    IN  Rat((a[1] \div h1) * (b[1] \div h2), (a[2] \div h2) * (b[2] \div h1))

\* a / b for b /= 0
RDiv(a, b) == RMul(a, IF b[1] < 0 THEN <<-b[2], -b[1]>> ELSE <<b[2], b[1]>>)

\* n1/d1 <= n2/d2 by comparing integer parts, then the reciprocals of the
\* fractional parts (no product is formed)
RECURSIVE FracLe(_, _, _, _)
FracLe(n1, d1, n2, d2) ==
    LET q1 == n1 \div d1
        q2 == n2 \div d2
        r1 == n1 % d1
        r2 == n2 % d2
    IN  IF q1 /= q2 THEN q1 < q2
        ELSE IF r1 = 0 THEN TRUE
        ELSE IF r2 = 0 THEN FALSE
        ELSE FracLe(d2, r2, d1, r1)

RLe(a, b) == FracLe(a[1], a[2], b[1], b[2])

RLt(a, b) == RLe(a, b) /\ a /= b

RGe(a, b) == RLe(b, a)

RGt(a, b) == RLt(b, a)

RAbs(a) == <<Abs(a[1]), a[2]>>

RMin(a, b) == IF RLe(a, b) THEN a ELSE b

RMax(a, b) == IF RGe(a, b) THEN a ELSE b

\* Python int(x): truncation toward zero
Trunc(a) == IF a[1] >= 0 THEN a[1] \div a[2] ELSE -((-a[1]) \div a[2])

-----------------------------------------------------------------------------
(* Python list / DataFrame indexing *)

At(s, k) == s[k + 1]

\* Python s[a:b]: negative bounds count from the end, then both are clipped
PySlice(s, a, b) ==
    LET n  == Len(s)
        a1 == IF a < 0 THEN (IF a + n < 0 THEN 0 ELSE a + n) ELSE (IF a > n THEN n ELSE a)
        b1 == IF b < 0 THEN (IF b + n < 0 THEN 0 ELSE b + n) ELSE (IF b > n THEN n ELSE b)
    IN  IF a1 >= b1 THEN <<>> ELSE [k \in 1..(b1 - a1) |-> s[a1 + k]]

\* Python s[-5:]
LastFive(s) == PySlice(s, -5, Len(s))

RECURSIVE SumSeq(_)
SumSeq(s) == IF s = <<>> THEN 0 ELSE s[1] + SumSeq(Tail(s))

RECURSIVE MinSeq(_)
MinSeq(s) == IF Len(s) = 1 THEN s[1]
             ELSE LET m == MinSeq(Tail(s)) IN IF s[1] < m THEN s[1] ELSE m

RECURSIVE MaxSeq(_)
MaxSeq(s) == IF Len(s) = 1 THEN s[1]
             ELSE LET m == MaxSeq(Tail(s)) IN IF s[1] > m THEN s[1] ELSE m

Col(s, f) == [k \in 1..Len(s) |-> s[k][f]]

\* all(x[k] > x[k-1] for k in range(1, len(x)))
Increasing(x) == \A k \in 2..Len(x) : x[k] > x[k - 1]

Decreasing(x) == \A k \in 2..Len(x) : x[k] < x[k - 1]


-----------------------------------------------------------------------------
(* Configuration: ICTTradingAgent._default_config, Backtester.__init__ *)

fvg_min_size == Rat(1, 1000)

orderblock_strength == 3

swing_window == 5

initial_capital == 10000

commission == 2

slippage == Rat(1, 1000)

Lookback == 100

MinStrength == Rat(6, 10)

BacktestRisk == Rat(2, 100)

BacktestMaxFraction == Rat(3, 10)

BacktestMaxOpen == 3

-----------------------------------------------------------------------------
(* PatternDetector *)

\* df.iloc[a:b]['Volume'].mean() compared as  cur > mean * 1.5 ; the mean of
\* an empty slice is NaN and every comparison with NaN is False
VolumeSurge(d, a, b, index) ==
    LET w == Col(PySlice(d, a, b), "Volume")
    IN  /\ w /= <<>>
        /\ 2 * Len(w) * At(d, index).Volume > 3 * SumSeq(w)

_calculate_fvg_strength(d, index, gap_size) ==
    LET base == RMin(RMul(gap_size, R(100)), Rat(1, 2))
        vol  == IF index < Len(d) /\ VolumeSurge(d, index - 10, index, index)
                THEN RAdd(base, Rat(2, 10)) ELSE base
        rc   == Col(PySlice(d, index - 3, index + 1), "Close")
        mom  == IF index >= 3 /\ Len(rc) >= 3
                THEN RAdd(vol, RMul(RAbs(Rat(rc[Len(rc)] - rc[1], rc[1])), R(5)))
                ELSE vol
    IN  RMin(mom, R(1))

\* a loop body that emits bullish gaps of any size and no bearish gap
FvgAtAnySize(d, k) ==
    LET prev == At(d, k - 1)
        cur  == At(d, k)
        next == At(d, k + 1)
    IN  IF prev.Low > next.High /\ cur.Close > cur.Open
        THEN << [type |-> "Fair Value Gap", direction |-> "BULLISH", timestamp |-> k,
                 zone_high |-> prev.Low, zone_low |-> next.High,
                 entry_price |-> R(next.High),
                 stop_loss |-> RMul(R(prev.Low), Rat(999, 1000)),
                 take_profit |-> R(prev.Low),
                 strength |-> Rat(1, 2)] >>
        ELSE <<>>

\* the pattern, if any, that the loop body emits for interior index k
FvgAt(d, k) ==
    LET prev == At(d, k - 1)
        cur  == At(d, k)
        next == At(d, k + 1)
    IN  IF prev.Low > next.High /\ cur.Close > cur.Open
        THEN LET gap_size == Rat(prev.Low - next.High, next.High)
             IN  IF RGe(gap_size, fvg_min_size)
                 THEN << [type |-> "Fair Value Gap", direction |-> "BULLISH",
                          timestamp |-> k,
                          zone_high |-> prev.Low, zone_low |-> next.High,
                          entry_price |-> R(next.High),
                          stop_loss |-> RSub(R(prev.Low), RMul(R(prev.Low), Rat(1, 1000))),
                          take_profit |-> RAdd(R(prev.Low),
                                               RMul(RMul(gap_size, R(prev.Low)), R(2))),
                          strength |-> _calculate_fvg_strength(d, k, gap_size)] >>
                 ELSE <<>>
        ELSE IF prev.High < next.Low /\ cur.Close < cur.Open
        THEN LET gap_size == Rat(next.Low - prev.High, prev.High)
             IN  IF RGe(gap_size, fvg_min_size)
                 THEN << [type |-> "Fair Value Gap", direction |-> "BEARISH",
                          timestamp |-> k,
                          zone_high |-> next.Low, zone_low |-> prev.High,
                          entry_price |-> R(prev.High),
                          stop_loss |-> RAdd(R(next.Low), RMul(R(next.Low), Rat(1, 1000))),
                          take_profit |-> RSub(R(next.Low),
                                               RMul(RMul(gap_size, R(next.Low)), R(2))),
                          strength |-> _calculate_fvg_strength(d, k, gap_size)] >>
                 ELSE <<>>
        ELSE <<>>

RECURSIVE FvgLoop(_, _)
FvgLoop(d, k) ==
    IF k > Len(d) - 2 THEN <<>> ELSE FvgAt(d, k) \o FvgLoop(d, k + 1)

detect_fair_value_gaps(d) ==
    IF Len(d) < 3 THEN <<>> ELSE FvgLoop(d, 1)

_is_strong_bullish_move(d, index, min_strength) ==
    IF index < min_strength \/ index >= Len(d) THEN FALSE
    ELSE Increasing(Col(PySlice(d, index - min_strength, index + 1), "Close"))

_is_strong_bearish_move(d, index, min_strength) ==
    IF index < min_strength \/ index >= Len(d) THEN FALSE
    ELSE Decreasing(Col(PySlice(d, index - min_strength, index + 1), "Close"))

_calculate_orderblock_strength(d, index) ==
    IF index < 5 \/ index >= Len(d) - 5 THEN Rat(1, 2)
    ELSE LET pre  == Col(PySlice(d, index - 5, index), "Close")
             post == Col(PySlice(d, index, index + 5), "Close")
         IN  IF pre = <<>> \/ post = <<>> THEN Rat(1, 2)
             ELSE LET change == RAbs(Rat(post[Len(post)] - pre[1], pre[1]))
                      base   == RMin(RMul(change, R(10)), Rat(8, 10))
                      vol    == IF VolumeSurge(d, index - 20, index, index)
                                THEN RAdd(base, Rat(2, 10)) ELSE base
                  IN  RMin(vol, R(1))

ObAt(d, k) ==
    LET zone    == PySlice(d, k - 5, k + 1)
        ob_low  == MinSeq(Col(zone, "Low"))
        ob_high == MaxSeq(Col(zone, "High"))
        height  == R(ob_high - ob_low)
    IN  IF _is_strong_bullish_move(d, k, orderblock_strength)
        THEN << [type |-> "Order Block", direction |-> "BULLISH",
                 timestamp |-> k,
                 zone_high |-> ob_high, zone_low |-> ob_low,
                 entry_price |-> R(ob_low),
                 stop_loss |-> RSub(R(ob_low), RMul(height, Rat(1, 2))),
                 take_profit |-> RAdd(R(ob_high), RMul(height, R(2))),
                 strength |-> _calculate_orderblock_strength(d, k)] >>
        ELSE IF _is_strong_bearish_move(d, k, orderblock_strength)
        THEN << [type |-> "Order Block", direction |-> "BEARISH",
                 timestamp |-> k,
                 zone_high |-> ob_high, zone_low |-> ob_low,
                 entry_price |-> R(ob_high),
                 stop_loss |-> RAdd(R(ob_high), RMul(height, Rat(1, 2))),
                 take_profit |-> RSub(R(ob_low), RMul(height, R(2))),
                 strength |-> _calculate_orderblock_strength(d, k)] >>
        ELSE <<>>

RECURSIVE ObLoop(_, _)
ObLoop(d, k) ==
    IF k > Len(d) - 11 THEN <<>> ELSE ObAt(d, k) \o ObLoop(d, k + 1)

detect_order_blocks(d) ==
    IF Len(d) < 20 THEN <<>> ELSE ObLoop(d, 10)

-----------------------------------------------------------------------------
(* ICTTradingAgent *)

\* the characters of the strings the agent compares
Chars(str) ==
    CASE str = "BULLISH"   -> <<"B", "U", "L", "L", "I", "S", "H">>
      [] str = "BEARISH"   -> <<"B", "E", "A", "R", "I", "S", "H">>
      [] str = "UPTREND"   -> <<"U", "P", "T", "R", "E", "N", "D">>
      [] str = "DOWNTREND" -> <<"D", "O", "W", "N", "T", "R", "E", "N", "D">>
      [] str = "SIDEWAYS"  -> <<"S", "I", "D", "E", "W", "A", "Y", "S">>

\* Python  needle in hay  on strings: needle occurs as a contiguous substring
StrIn(needle, hay) ==
    LET a == Chars(needle)
        b == Chars(hay)
    IN  \E off \in 0..(Len(b) - Len(a)) : \A k \in 1..Len(a) : b[off + k] = a[k]

IsSwingHigh(d, k, window) ==
    \A j \in (k - window)..(k + window) : j /= k => At(d, k).High > At(d, j).High

IsSwingLow(d, k, window) ==
    \A j \in (k - window)..(k + window) : j /= k => At(d, k).Low < At(d, j).Low

RECURSIVE SwingLoop(_, _, _, _)
SwingLoop(d, k, window, high) ==
    IF k > Len(d) - window - 1 THEN <<>>
    ELSE (IF high
          THEN (IF IsSwingHigh(d, k, window)
                THEN <<[index |-> k, price |-> At(d, k).High]>> ELSE <<>>)
          ELSE (IF IsSwingLow(d, k, window)
                THEN <<[index |-> k, price |-> At(d, k).Low]>> ELSE <<>>))
         \o SwingLoop(d, k + 1, window, high)

_identify_swing_points(d, window) ==
    [highs |-> SwingLoop(d, window, window, TRUE),
     lows  |-> SwingLoop(d, window, window, FALSE)]

_determine_trend(swing_points) ==
    LET highs == Col(LastFive(swing_points.highs), "price")
        lows  == Col(LastFive(swing_points.lows), "price")
    IN  IF Len(highs) < 2 \/ Len(lows) < 2 THEN "SIDEWAYS"
        ELSE IF Increasing(highs) /\ Increasing(lows) THEN "UPTREND"
        ELSE IF Decreasing(highs) /\ Decreasing(lows) THEN "DOWNTREND"
        ELSE "SIDEWAYS"

\* the dictionary analyze_market_structure returns; an empty DataFrame gives
\* the error record, which has no trend_direction key
analyze_market_structure(d) ==
    IF d = <<>> THEN [error |-> "No data available"]
    ELSE LET sp == _identify_swing_points(d, swing_window)
         IN  [trend_direction |-> _determine_trend(sp), swing_points |-> sp]

\* market_structure.get("trend_direction", "SIDEWAYS")
TrendOf(market_structure) ==
    IF "trend_direction" \in DOMAIN market_structure
    THEN market_structure.trend_direction ELSE "SIDEWAYS"

\* a validity test that ignores the trend
_is_valid_signal_any(pattern, market_structure) == TRUE

\* _is_valid_fvg_signal and _is_valid_orderblock_signal have the same body
_is_valid_signal(pattern, market_structure) ==
    LET trend == TrendOf(market_structure)
    IN  \/ trend = "UPTREND" /\ pattern.direction = "BULLISH"
        \/ trend = "DOWNTREND" /\ pattern.direction = "BEARISH"

\* pattern.get("volume_confirmation", False)
VolumeConfirmation(pattern) ==
    "volume_confirmation" \in DOMAIN pattern /\ pattern.volume_confirmation

_calculate_signal_strength(pattern, market_structure) ==
    LET trend == TrendOf(market_structure)
        s1 == IF trend /= "SIDEWAYS" /\ StrIn(pattern.direction, trend)
              THEN RAdd(pattern.strength, Rat(2, 10)) ELSE pattern.strength
        s2 == IF VolumeConfirmation(pattern) THEN RAdd(s1, Rat(1, 10)) ELSE s1
    IN  RMin(s2, R(1))

SignalOf(pattern, market_structure, kind, label) ==
    [type |-> kind,
     direction |-> pattern.direction,
     price |-> pattern.entry_price,
     stop_loss |-> pattern.stop_loss,
     take_profit |-> pattern.take_profit,
     strength |-> _calculate_signal_strength(pattern, market_structure),
     pattern |-> label]

RECURSIVE SignalLoop(_, _, _, _)
SignalLoop(patterns, market_structure, kind, label) ==
    IF patterns = <<>> THEN <<>>
    ELSE (IF _is_valid_signal(patterns[1], market_structure)
          THEN <<SignalOf(patterns[1], market_structure, kind, label)>> ELSE <<>>)
         \o SignalLoop(Tail(patterns), market_structure, kind, label)

\* an insertion that puts a signal before those of equal strength
RECURSIVE InsertBeforeEqual(_, _)
InsertBeforeEqual(sorted, x) ==
    IF sorted = <<>> THEN <<x>>
    ELSE IF RGt(sorted[1].strength, x.strength)
         THEN <<sorted[1]>> \o InsertBeforeEqual(Tail(sorted), x)
         ELSE <<x>> \o sorted

\* sorted(..., key=strength, reverse=True): stable, descending
RECURSIVE InsertByStrength(_, _)
InsertByStrength(sorted, x) ==
    IF sorted = <<>> THEN <<x>>
    ELSE IF RGe(sorted[1].strength, x.strength)
         THEN <<sorted[1]>> \o InsertByStrength(Tail(sorted), x)
         ELSE <<x>> \o sorted

RECURSIVE SortByStrength(_)
SortByStrength(s) ==
    IF s = <<>> THEN <<>>
    ELSE InsertByStrength(SortByStrength(PySlice(s, 0, Len(s) - 1)), s[Len(s)])

\* generate_signals on the three DataFrames its three get_price_data calls return
SignalsFrom(fvgs, order_blocks, market_structure) ==
    SortByStrength(
        SignalLoop(fvgs, market_structure, "FVG_ENTRY", "Fair Value Gap")
        \o SignalLoop(order_blocks, market_structure, "ORDERBLOCK_ENTRY", "Order Block"))

generate_signals(d1, d2, d3) ==
    SignalsFrom(detect_fair_value_gaps(d1), detect_order_blocks(d2),
                analyze_market_structure(d3))

-----------------------------------------------------------------------------
(* The price-data provider (DataHandler.get_price_data): what it returns is
   outside the program; it is the recent history at the time of the call, or
   an empty DataFrame when the fetch fails.  Each bar is
   <<Open, High, Low, Close, Volume>>. *)

Bars(rows) ==
    [k \in 1..Len(rows) |->
        [Open |-> rows[k][1], High |-> rows[k][2], Low |-> rows[k][3],
         Close |-> rows[k][4], Volume |-> rows[k][5]]]

\* a falling market with a bearish gap and a bearish order block
FallingMarket ==
    Bars(<<
      <<105, 105, 104, 104, 200>>, <<104, 104, 100, 101, 100>>, <<98, 99, 97, 98, 100>>, <<98, 100, 98, 100, 100>>,
      <<100, 100, 100, 100, 200>>, <<100, 101, 96, 97, 100>>, <<97, 98, 95, 96, 100>>, <<99, 101, 98, 101, 200>>,
      <<104, 104, 101, 101, 100>>, <<101, 102, 99, 99, 200>>, <<97, 98, 96, 97, 100>>, <<97, 97, 96, 96, 200>>,
      <<96, 99, 95, 98, 100>>, <<96, 99, 96, 99, 100>>, <<102, 103, 101, 101, 100>>, <<101, 101, 101, 101, 100>>,
      <<98, 98, 94, 95, 100>>, <<95, 96, 95, 96, 200>>, <<96, 99, 96, 99, 100>>, <<101, 101, 98, 98, 100>>,
      <<95, 99, 95, 98, 100>>, <<96, 98, 95, 98, 200>> >>)

\* a rising market with two bullish gaps, the later one the stronger
RisingMarket ==
    Bars(<<
      <<97, 99, 96, 99, 100>>, <<102, 102, 101, 101, 100>>, <<99, 100, 98, 100, 200>>, <<100, 100, 98, 98, 100>>,
      <<96, 98, 96, 97, 100>>, <<94, 97, 94, 97, 200>>, <<97, 99, 96, 99, 100>>, <<101, 103, 100, 102, 100>>,
      <<105, 108, 105, 107, 200>>, <<104, 105, 103, 104, 100>>, <<102, 104, 102, 104, 100>>, <<104, 107, 104, 106, 100>>,
      <<106, 106, 104, 104, 100>>, <<102, 104, 101, 104, 100>>, <<107, 108, 107, 108, 100>>, <<110, 111, 107, 108, 200>>,
      <<108, 108, 107, 108, 100>>, <<108, 108, 104, 105, 100>>, <<105, 105, 102, 103, 100>>, <<103, 105, 103, 104, 100>>,
      <<104, 107, 103, 107, 200>>, <<107, 107, 105, 106, 100>> >>)

NoData == <<>>

LiveData == <<NoData, FallingMarket, RisingMarket>>

\* the detections on each provider answer, computed once
LiveFvgs == [w \in 1..Len(LiveData) |-> detect_fair_value_gaps(LiveData[w])]

LiveOrderBlocks == [w \in 1..Len(LiveData) |-> detect_order_blocks(LiveData[w])]

LiveStructure == [w \in 1..Len(LiveData) |-> analyze_market_structure(LiveData[w])]

-----------------------------------------------------------------------------
(* Bounds of the model *)

\* bars of the historical series after the lookback period
MaxBars == 4

\* the same, for a pair of invocations that is compared
MaxRerunBars == 2

\* closing prices a historical bar can have
Closes == {96, 100, 102}

-----------------------------------------------------------------------------
(* Backtester: the historical series *)

\* A DataFrame of n bars; run_backtest reads only the closes of the bars with
\* index >= 100, kept in tail (bar Lookback + k - 1 is tail[k]).
DataFrames(maxBars) ==
    {[len |-> 0, tail |-> <<>>], [len |-> Lookback, tail |-> <<>>]}
    \cup UNION {{[len |-> Lookback + n, tail |-> t] : t \in [1..n -> Closes]}
                : n \in 1..maxBars}

\* an emptiness test that never fires
IsEmptyNever(d) == FALSE

\* df.empty
IsEmpty(d) == d.len = 0

\* df.iloc[k]['Close'] for k >= Lookback
CloseAt(d, k) == d.tail[k - Lookback + 1]

\* df.iloc[-1]['Close']
FinalClose(d) == d.tail[Len(d.tail)]

-----------------------------------------------------------------------------
(* Backtester: helpers of run_backtest *)

_check_exit_signal(position, current_price) ==
    IF position.direction = "LONG"
    THEN (IF RLe(current_price, position.stop_loss) THEN "Stop Loss"
          ELSE IF RGe(current_price, position.take_profit) THEN "Take Profit"
          ELSE "None")
    ELSE (IF RGe(current_price, position.stop_loss) THEN "Stop Loss"
          ELSE IF RLe(current_price, position.take_profit) THEN "Take Profit"
          ELSE "None")

\* a sizing that lets a position take half of the capital
_calculate_position_size_half(cap, entry_price, stop_loss) ==
    LET position_size == Trunc(RDiv(RMul(cap, BacktestRisk), RAbs(RSub(entry_price, stop_loss))))
        max_position  == Trunc(RDiv(RMul(cap, Rat(1, 2)), entry_price))
    IN  IF RLe(RAbs(RSub(entry_price, stop_loss)), R(0)) THEN 0
        ELSE IF position_size <= max_position THEN position_size ELSE max_position

_calculate_position_size(cap, entry_price, stop_loss) ==
    LET risk_amount == RMul(cap, BacktestRisk)
        price_risk  == RAbs(RSub(entry_price, stop_loss))
    IN  IF RLe(price_risk, R(0)) THEN 0
        ELSE LET position_size == Trunc(RDiv(risk_amount, price_risk))
                 max_position  == Trunc(RDiv(RMul(cap, BacktestMaxFraction), entry_price))
             IN  IF position_size <= max_position THEN position_size ELSE max_position

_calculate_pnl(position, exit_price) ==
    IF position.direction = "LONG"
    THEN RMul(RSub(exit_price, position.entry_price), R(position.quantity))
    ELSE RMul(RSub(position.entry_price, exit_price), R(position.quantity))

\* current_price * (1 - slippage if direction == 'LONG' else 1 + slippage)
ExitPrice(position, current_price) ==
    RMul(current_price,
         IF position.direction = "LONG" THEN RSub(R(1), slippage)
                                        ELSE RAdd(R(1), slippage))

TradeOf(position, exit_date, exit_price, reason) ==
    [entry_date |-> position.entry_date,
     exit_date |-> exit_date,
     entry_price |-> position.entry_price,
     exit_price |-> exit_price,
     direction |-> position.direction,
     quantity |-> position.quantity,
     pnl |-> _calculate_pnl(position, exit_price),
     exit_reason |-> reason]

\* list.remove(x): drops the first element equal to x
RECURSIVE RemoveFirst(_, _)
RemoveFirst(list, x) ==
    IF list = <<>> THEN <<>>
    ELSE IF list[1] = x THEN Tail(list)
    ELSE <<list[1]>> \o RemoveFirst(Tail(list), x)

\* positions valued at their entry price instead of the bar's close
RECURSIVE PositionValueAtEntry(_, _)
PositionValueAtEntry(list, current_price) ==
    IF list = <<>> THEN R(0)
    ELSE RAdd(RMul(R(list[1].quantity), list[1].entry_price),
              PositionValueAtEntry(Tail(list), current_price))

\* sum(pos['quantity'] * current_price for pos in positions)
RECURSIVE PositionValue(_, _)
PositionValue(list, current_price) ==
    IF list = <<>> THEN R(0)
    ELSE RAdd(RMul(R(list[1].quantity), current_price),
              PositionValue(Tail(list), current_price))

\* an exit loop over the live list instead of the copy: after a removal the
\* iteration skips the position that follows the removed one
RECURSIVE ExitLoopLive(_, _, _, _)
ExitLoopLive(todo, st, current_date, current_price) ==
    IF todo = <<>> THEN st
    ELSE LET position    == todo[1]
             exit_signal == _check_exit_signal(position, current_price)
             trade       == TradeOf(position, current_date,
                                    ExitPrice(position, current_price), exit_signal)
         IN  IF exit_signal = "None"
             THEN ExitLoopLive(Tail(todo), st, current_date, current_price)
             ELSE ExitLoopLive(IF Len(todo) > 1 THEN Tail(Tail(todo)) ELSE <<>>,
                               [capital   |-> RAdd(st.capital, RSub(trade.pnl, R(commission))),
                                positions |-> RemoveFirst(st.positions, position),
                                trades    |-> Append(st.trades, trade)],
                               current_date, current_price)

\* the loop  for position in positions[:]  over the copy todo, acting on the
\* state st = [capital, positions, trades]
RECURSIVE ExitLoop(_, _, _, _)
ExitLoop(todo, st, current_date, current_price) ==
    IF todo = <<>> THEN st
    ELSE LET position    == todo[1]
             exit_signal == _check_exit_signal(position, current_price)
             exit_price  == ExitPrice(position, current_price)
             trade       == TradeOf(position, current_date, exit_price, exit_signal)
             st2 == IF exit_signal = "None" THEN st
                    ELSE [capital   |-> RAdd(st.capital, RSub(trade.pnl, R(commission))),
                          positions |-> RemoveFirst(st.positions, position),
                          trades    |-> Append(st.trades, trade)]
         IN  ExitLoop(Tail(todo), st2, current_date, current_price)

\* a final loop that closes nothing
FinalLoopNone(todo, st, last_date, final_price) == st

\* the loop  for position in positions  after the simulation; it removes nothing
RECURSIVE FinalLoop(_, _, _, _)
FinalLoop(todo, st, last_date, final_price) ==
    IF todo = <<>> THEN st
    ELSE LET position   == todo[1]
             exit_price == ExitPrice(position, final_price)
             trade      == TradeOf(position, last_date, exit_price, "End of backtest")
         IN  FinalLoop(Tail(todo),
                       [capital   |-> RAdd(st.capital, RSub(trade.pnl, R(commission))),
                        positions |-> st.positions,
                        trades    |-> Append(st.trades, trade)],
                       last_date, final_price)

\* a capacity test that admits a fourth position
HasCapacityInclusive(list) == Len(list) <= BacktestMaxOpen

\* len(positions) < 3
HasCapacity(list) == Len(list) < BacktestMaxOpen

\* a strength test with threshold 0.5
StrongEnoughHalf(signal) == RGe(signal.strength, Rat(1, 2))

\* signal['strength'] >= 0.6
StrongEnough(signal) == RGe(signal.strength, MinStrength)

\* signal['price'] * (1 + slippage)
EntryPrice(signal) == RMul(signal.price, RAdd(R(1), slippage))

\* position_size * entry_price + commission
EntryCost(signal, position_size) ==
    RAdd(RMul(R(position_size), EntryPrice(signal)), R(commission))

PositionOf(signal, current_date, position_size) ==
    [entry_date |-> current_date,
     entry_price |-> EntryPrice(signal),
     direction |-> signal.direction,
     quantity |-> position_size,
     stop_loss |-> signal.stop_loss,
     take_profit |-> signal.take_profit,
     pattern |-> signal.pattern]

\* the body of  for signal in signals[:1]  on the state st = [capital, positions]
EnterLoop(top, st, current_date) ==
    IF top = <<>> THEN st
    ELSE LET signal        == top[1]
             position_size == _calculate_position_size(st.capital, signal.price,
                                                       signal.stop_loss)
             cost          == EntryCost(signal, position_size)
         IN  IF /\ StrongEnough(signal)
                /\ position_size > 0
                /\ RLe(cost, st.capital)
             THEN [capital   |-> RSub(st.capital, cost),
                   positions |-> Append(st.positions,
                                        PositionOf(signal, current_date, position_size))]
             ELSE st

\* _calculate_max_drawdown: the loop of lines 321-327; the division of line 325
\* raises ZeroDivisionError when the peak is 0
RECURSIVE DrawdownLoop(_, _, _)
DrawdownLoop(values, peak, max_dd) ==
    IF values = <<>> THEN [raised |-> FALSE, value |-> max_dd]
    ELSE LET pk == RMax(peak, values[1])
         IN  IF pk = R(0) THEN [raised |-> TRUE]
             ELSE LET dd == RDiv(RSub(pk, values[1]), pk)
                  IN  DrawdownLoop(Tail(values), pk, RMax(max_dd, dd))

_calculate_max_drawdown(equity_values) ==
    IF equity_values = <<>> THEN [raised |-> FALSE, value |-> R(0)]
    ELSE DrawdownLoop(equity_values, equity_values[1], R(0))

RECURSIVE SumPnl(_)
SumPnl(list) == IF list = <<>> THEN R(0) ELSE RAdd(list[1].pnl, SumPnl(Tail(list)))

\* _calculate_metrics, without the Sharpe ratio (a square root); the equity
\* curve of a run starts at the initial capital, so its peak is never 0
_calculate_metrics(trs, curve) ==
    IF trs = <<>>
    THEN [total_return |-> R(0), max_drawdown |-> R(0), total_trades |-> 0]
    ELSE [total_return |-> RDiv(SumPnl(trs), R(initial_capital)),
          max_drawdown |-> _calculate_max_drawdown(Col(curve, "equity")).value,
          total_trades |-> Len(trs)]

-----------------------------------------------------------------------------
(* Backtester.run_backtest as a state machine *)

NoCall == [called |-> FALSE]

NoInvocation == [op |-> "none"]

NoFirst == [siglog |-> <<>>, result |-> [pending |-> TRUE]]

NoResult == [pending |-> TRUE]

\* before the call: the series the provider will return is d
Idle(d, r) ==
    /\ pc = "start"
    /\ df = d
    /\ i = Lookback
    /\ capital = R(initial_capital)
    /\ positions = <<>>
    /\ trades = <<>>
    /\ equity_curve = <<>>
    /\ signals = <<>>
    /\ result = NoResult
    /\ opened = 0
    /\ run = r
    /\ first = NoFirst
    /\ siglog = <<>>
    /\ vt = NoCall
    /\ call = NoInvocation
    /\ earlier = NoInvocation

Init == \E d \in DataFrames(MaxBars) : Idle(d, 0)

\* where the loop  for i in range(100, len(df))  goes from index k
LoopAt(k) == IF k < df.len THEN "equity" ELSE "final"

\* lines 56-67: fetch, the empty check, the tracking variables
Fetch ==
    /\ pc = "start"
    /\ IF IsEmpty(df)
       THEN /\ result' = [error |-> "No data available"]
            /\ pc' = "error"
            /\ UNCHANGED <<i, capital, positions, trades, equity_curve>>
       ELSE /\ capital' = R(initial_capital)
            /\ positions' = <<>>
            /\ trades' = <<>>
            /\ equity_curve' = <<>>
            /\ i' = Lookback
            /\ pc' = LoopAt(Lookback)
            /\ UNCHANGED result
    /\ UNCHANGED <<df, signals, opened, run, first, siglog, vt, call, earlier>>

\* lines 71-82: the equity sample of bar i
RecordEquity ==
    /\ pc = "equity"
    /\ LET current_price  == R(CloseAt(df, i))
           position_value == PositionValue(positions, current_price)
       IN  equity_curve' = Append(equity_curve,
                                  [date |-> i,
                                   equity |-> RAdd(capital, position_value),
                                   cash |-> capital,
                                   positions_value |-> position_value])
    /\ pc' = "exits"
    /\ UNCHANGED <<df, i, capital, positions, trades, signals, result, opened,
                   run, first, siglog, vt, call, earlier>>

\* lines 84-105: exits of bar i
CheckExits ==
    /\ pc = "exits"
    /\ LET st == ExitLoop(positions,
                          [capital |-> capital, positions |-> positions,
                           trades |-> trades],
                          i, R(CloseAt(df, i)))
       IN  /\ capital' = st.capital
           /\ positions' = st.positions
           /\ trades' = st.trades
    /\ pc' = "entry"
    /\ UNCHANGED <<df, i, equity_curve, signals, result, opened, run, first,
                   siglog, vt, call, earlier>>

\* lines 107-135: the entry of bar i, then the next index.  generate_signals
\* fetches three times; f, o and m are what the provider answered.
GenerateAndEnter ==
    /\ pc = "entry"
    /\ IF HasCapacity(positions)
       THEN \E f \in 1..Len(LiveData), o \in 1..Len(LiveData), m \in 1..Len(LiveData) :
              LET sigs == SignalsFrom(LiveFvgs[f], LiveOrderBlocks[o], LiveStructure[m])
                  st   == EnterLoop(PySlice(sigs, 0, 1),
                                    [capital |-> capital, positions |-> positions], i)
              IN  /\ signals' = sigs
                  /\ capital' = st.capital
                  /\ positions' = st.positions
                  /\ opened' = opened + (Len(st.positions) - Len(positions))
                  /\ siglog' = IF run = 0 THEN siglog
                               ELSE Append(siglog, [bar |-> i, signals |-> sigs])
       ELSE UNCHANGED <<signals, capital, positions, opened, siglog>>
    /\ i' = i + 1
    /\ pc' = LoopAt(i + 1)
    /\ UNCHANGED <<df, trades, equity_curve, result, run, first, vt, call, earlier>>

\* lines 137-154: positions left at the end
CloseRemaining ==
    /\ pc = "final"
    /\ LET st == FinalLoop(positions,
                           [capital |-> capital, positions |-> positions,
                            trades |-> trades],
                           df.len - 1, R(FinalClose(df)))
       IN  /\ capital' = st.capital
           /\ positions' = st.positions
           /\ trades' = st.trades
    /\ pc' = "report"
    /\ UNCHANGED <<df, i, equity_curve, signals, result, opened, run, first,
                   siglog, vt, call, earlier>>

\* lines 156-170: metrics and the returned record
Report ==
    /\ pc = "report"
    /\ LET metrics == _calculate_metrics(trades, equity_curve)
       IN  result' = [initial_capital |-> R(initial_capital),
                      final_capital |-> capital,
                      trades |-> trades,
                      equity_curve |-> equity_curve,
                      total_return |-> metrics.total_return,
                      max_drawdown |-> metrics.max_drawdown,
                      total_trades |-> metrics.total_trades]
    /\ pc' = "done"
    /\ UNCHANGED <<df, i, capital, positions, trades, equity_curve, signals,
                   opened, run, first, siglog, vt, call, earlier>>

Next ==
    \/ Fetch
    \/ RecordEquity
    \/ CheckExits
    \/ GenerateAndEnter
    \/ CloseRemaining
    \/ Report

Spec == Init /\ [][Next]_vars

-----------------------------------------------------------------------------
(* A second invocation of run_backtest with the same arguments, on the same
   historical series: run = 1 is the first invocation, run = 2 the second;
   siglog keeps what generate_signals returned at each bar. *)

InitRerun == \E d \in DataFrames(MaxRerunBars) : Idle(d, 1)

Returned == pc \in {"done", "error"}

Rerun ==
    /\ Returned
    /\ run = 1
    /\ first' = [siglog |-> siglog, result |-> result]
    /\ run' = 2
    /\ pc' = "start"
    /\ i' = Lookback
    /\ capital' = R(initial_capital)
    /\ positions' = <<>>
    /\ trades' = <<>>
    /\ equity_curve' = <<>>
    /\ signals' = <<>>
    /\ result' = NoResult
    /\ opened' = 0
    /\ siglog' = <<>>
    /\ UNCHANGED <<df, vt, call, earlier>>

NextRerun ==
    \/ Next
    \/ Rerun

SpecRerun == InitRerun /\ [][NextRerun]_vars

-----------------------------------------------------------------------------
(* RiskManager *)

risk_per_trade == Rat(2, 100)

max_positions == 3

max_portfolio_risk == Rat(6, 100)

max_position_size == Rat(3, 10)

take_profit_ratio == 2

\* dict.get(key, default)
Get(dict, key, default) == IF key \in DOMAIN dict THEN dict[key] ELSE default

\* an optional argument: None, or a supplied value
None == [given |-> FALSE]

Some(v) == [given |-> TRUE, value |-> v]

\* arg or default : a supplied None or 0 is falsy
Or(arg, default) == IF arg.given /\ arg.value /= R(0) THEN arg.value ELSE default

\* a sizing without the clamp to the maximum position size
calculate_position_size_unclamped(cap, entry_price, stop_loss, risk_per_trade_arg) ==
    LET price_risk == RAbs(RSub(entry_price, stop_loss))
    IN  IF RLe(price_risk, R(0)) THEN [raised |-> FALSE, size |-> 0]
        ELSE [raised |-> FALSE,
              size |-> Trunc(RDiv(RMul(cap, Or(risk_per_trade_arg, risk_per_trade)),
                                  price_risk))]

\* calculate_position_size; a division by zero raises ZeroDivisionError:
\* [raised |-> TRUE]
calculate_position_size(cap, entry_price, stop_loss, risk_per_trade_arg) ==
    LET risk_pct    == Or(risk_per_trade_arg, risk_per_trade)
        risk_amount == RMul(cap, risk_pct)
        price_risk  == RAbs(RSub(entry_price, stop_loss))
    IN  IF RLe(price_risk, R(0)) THEN [raised |-> FALSE, size |-> 0]
        ELSE IF entry_price = R(0) THEN [raised |-> TRUE]
        ELSE LET by_risk      == Trunc(RDiv(risk_amount, price_risk))
                 max_position == Trunc(RDiv(RMul(cap, max_position_size), entry_price))
                 capped       == IF by_risk <= max_position THEN by_risk ELSE max_position
                 total_cost   == RMul(R(capped), entry_price)
             IN  [raised |-> FALSE,
                  size |-> IF RGt(total_cost, cap)
                           THEN Trunc(RDiv(cap, entry_price)) ELSE capped]

RECURSIVE _calculate_portfolio_risk(_, _)
_calculate_portfolio_risk(list, cap) ==
    IF list = <<>> THEN R(0)
    ELSE LET position == list[1]
             risk     == RMul(RAbs(RSub(position.entry_price, position.stop_loss)),
                              R(position.quantity))
             risk_pct == IF RGt(cap, R(0)) THEN RDiv(risk, cap) ELSE R(0)
         IN  RAdd(risk_pct, _calculate_portfolio_risk(Tail(list), cap))

\* current_positions or self.positions : None and the empty list are falsy.
\* The argument is [given |-> FALSE] for None, else [given |-> TRUE, list |-> l].
EffectivePositions(current_positions, registry) ==
    IF ~current_positions.given THEN registry
    ELSE IF current_positions.list = <<>> THEN registry
    ELSE current_positions.list

validate_trade(signal, cap, current_positions, registry) ==
    LET list        == EffectivePositions(current_positions, registry)
        entry_price == Get(signal, "price", R(0))
        stop_loss   == Get(signal, "stop_loss", R(0))
        sized       == calculate_position_size(cap, entry_price, stop_loss, None)
        risk        == RAbs(RSub(entry_price, stop_loss))
        reward      == RAbs(RSub(Get(signal, "take_profit", R(0)), entry_price))
    IN  IF Len(list) >= max_positions
        THEN [raised |-> FALSE, valid |-> FALSE,
              reason |-> "Maximum number of positions reached"]
        ELSE IF sized.raised THEN [raised |-> TRUE]
        ELSE IF sized.size <= 0
        THEN [raised |-> FALSE, valid |-> FALSE,
              reason |-> "Insufficient capital for position"]
        ELSE IF RGt(RAdd(_calculate_portfolio_risk(list, cap), risk_per_trade),
                    max_portfolio_risk)
        THEN [raised |-> FALSE, valid |-> FALSE,
              reason |-> "Would exceed maximum portfolio risk"]
        ELSE IF RGt(risk, R(0)) /\ RLt(RDiv(reward, risk), R(take_profit_ratio))
        THEN [raised |-> FALSE, valid |-> FALSE,
              reason |-> "Risk/reward ratio below minimum"]
        ELSE [raised |-> FALSE, valid |-> TRUE, reason |-> "Trade validated"]

\* inputs of validate_trade
SmallPosition ==
    [symbol |-> "SYM", direction |-> "LONG", entry_price |-> R(100), quantity |-> 10,
     stop_loss |-> R(95), take_profit |-> R(110)]

BigPosition ==
    [symbol |-> "SYM", direction |-> "LONG", entry_price |-> R(100), quantity |-> 100,
     stop_loss |-> R(95), take_profit |-> R(110)]

Given(list) == [given |-> TRUE, list |-> list]

PositionLists ==
    << [given |-> FALSE], Given(<<>>), Given(<<SmallPosition>>), Given(<<BigPosition>>),
       Given(<<SmallPosition, BigPosition>>),
       Given(<<SmallPosition, SmallPosition, SmallPosition>>) >>

Registries == << <<>>, <<BigPosition>>, <<SmallPosition, SmallPosition, SmallPosition>> >>

\* a caller's signal: any of the three prices may be absent
FullSignal(sl, tp) ==
    [direction |-> "LONG", price |-> R(100), stop_loss |-> R(sl), take_profit |-> R(tp)]

CallerSignals ==
    << [direction |-> "LONG"],
       [direction |-> "LONG", stop_loss |-> R(95), take_profit |-> R(110)],
       FullSignal(95, 90), FullSignal(95, 102), FullSignal(95, 110),
       FullSignal(100, 90), FullSignal(100, 102), FullSignal(100, 110),
       FullSignal(105, 90), FullSignal(105, 102), FullSignal(105, 110) >>

Capitals == {R(0), R(50), R(10000)}

ValidateTrade ==
    \E s \in 1..Len(CallerSignals), cap \in Capitals,
       c \in 1..Len(PositionLists), g \in 1..Len(Registries) :
        /\ vt' = [called |-> TRUE, signal |-> CallerSignals[s], capital |-> cap,
                  current_positions |-> PositionLists[c], registry |-> Registries[g],
                  out |-> validate_trade(CallerSignals[s], cap, PositionLists[c],
                                         Registries[g])]
        /\ UNCHANGED <<pc, df, i, capital, positions, trades, equity_curve,
                       signals, result, opened, run, first, siglog, call, earlier>>

InitRisk == Idle([len |-> 0, tail |-> <<>>], 0)

NextRisk == ValidateTrade

SpecRisk == InitRisk /\ [][NextRisk]_vars

-----------------------------------------------------------------------------
(* Properties *)

Range(list) == {list[k] : k \in 1..Len(list)}

\* a position opened from a BULLISH signal is long, one from a BEARISH signal short
IsLong(position) == position.direction = "BULLISH"

\* the trades a step appended
NewTrades == SubSeq(trades', Len(trades) + 1, Len(trades'))

\* the close a step exits at: bar i in the loop, the last bar after it
StepClose ==
    IF pc = "exits" THEN R(CloseAt(df, i))
    ELSE IF df.tail = <<>> THEN R(0) ELSE R(FinalClose(df))

LongShortExit(position, close) ==
    IF IsLong(position)
    THEN (IF RLe(close, position.stop_loss) THEN "Stop Loss"
          ELSE IF RGe(close, position.take_profit) THEN "Take Profit" ELSE "None")
    ELSE (IF RGe(close, position.stop_loss) THEN "Stop Loss"
          ELSE IF RLe(close, position.take_profit) THEN "Take Profit" ELSE "None")

\* what the exits step did with a position: the reason of its trade, or None
ExitOutcome(position) ==
    IF position \in Range(positions') THEN "None"
    ELSE IF \E t \in Range(NewTrades) : t.entry_date = position.entry_date
    THEN (CHOOSE t \in Range(NewTrades) : t.entry_date = position.entry_date).exit_reason
    ELSE "Lost"

\* C1: at every bar a long position (from a BULLISH signal) is closed with
\* 'Stop Loss' when close <= stop, with 'Take Profit' when close >= target and
\* otherwise stays open; a short position (from a BEARISH signal) uses the
\* mirrored comparisons.
C1_ExitByDirection ==
    [][pc = "exits" =>
        \A p \in Range(positions) :
            ExitOutcome(p) = LongShortExit(p, R(CloseAt(df, i)))]_vars

\* the part of C1 the code satisfies: the rule for short positions
C1_ShortExitRule ==
    [][pc = "exits" =>
        \A p \in Range(positions) :
            ~IsLong(p) => ExitOutcome(p) = LongShortExit(p, R(CloseAt(df, i)))]_vars

LongShortExitPrice(position, close) ==
    IF IsLong(position) THEN RMul(close, Rat(999, 1000))
                        ELSE RMul(close, Rat(1001, 1000))

LongShortPnl(position, exit_price) ==
    IF IsLong(position)
    THEN RMul(RSub(exit_price, position.entry_price), R(position.quantity))
    ELSE RMul(RSub(position.entry_price, exit_price), R(position.quantity))

RECURSIVE NetOf(_)
NetOf(list) ==
    IF list = <<>> THEN R(0)
    ELSE RAdd(RSub(list[1].pnl, R(2)), NetOf(Tail(list)))

CloseAccountingStep ==
    pc \in {"exits", "final"} =>
        /\ SubSeq(trades', 1, Len(trades)) = trades
        /\ \A t \in Range(NewTrades) :
              \E p \in Range(positions) :
                  /\ p.entry_date = t.entry_date
                  /\ t.exit_price = LongShortExitPrice(p, StepClose)
                  /\ t.pnl = LongShortPnl(p, t.exit_price)
        /\ \A j, k \in 1..Len(NewTrades) :
              NewTrades[j].entry_date = NewTrades[k].entry_date => j = k
        /\ capital' = RAdd(capital, NetOf(NewTrades))
        /\ pc = "exits" =>
              \A p \in Range(positions) :
                  (p \notin Range(positions'))
                      <=> (\E t \in Range(NewTrades) : t.entry_date = p.entry_date)

\* C2: every position closed (stop, target, end of backtest) executes at
\* close*(1-slippage) with P&L (exit-entry)*quantity when long (BULLISH), at
\* close*(1+slippage) with P&L (entry-exit)*quantity when short (BEARISH);
\* cash is credited with P&L minus commission, exactly one Trade with that
\* P&L is appended and the position leaves the open set.
C2_CloseAccounting == [][CloseAccountingStep]_vars

\* C3: the signals generated at bar i depend only on bars with index <= i:
\* two invocations over series that agree on bars 0..i (here: the same
\* series) get the same signals at bar i.
C3_NoLookahead ==
    run = 2 =>
        \A k \in 1..Len(siglog) :
            (k <= Len(first.siglog) /\ first.siglog[k].bar = siglog[k].bar)
                => siglog[k].signals = first.siglog[k].signals

\* C4: two invocations on the same series with the same capital, commission
\* and slippage return identical trade logs, equity curves and final capital.
C4_Determinism ==
    (run = 2 /\ pc = "done") =>
        /\ result.trades = first.result.trades
        /\ result.equity_curve = first.result.equity_curve
        /\ result.final_capital = first.result.final_capital

OpenLimitStep ==
    /\ Len(positions') <= 3
    /\ Len(positions') > Len(positions) =>
          /\ pc = "entry"
          /\ Len(positions) < 3
          /\ Len(positions') = Len(positions) + 1

\* C5: at most 3 positions are ever open; a position is opened only in the
\* entry step of a bar that has fewer than 3 open after its exits, and at
\* most one per bar.
C5_OpenLimit == [][OpenLimitStep]_vars

\* three positions are open when a bar's entry step begins
C5_AtCapacity == pc = "entry" /\ Len(positions) = 3

EntryStep ==
    pc = "entry" =>
        IF positions' = positions THEN capital' = capital
        ELSE /\ signals' /= <<>>
             /\ Len(positions') = Len(positions) + 1
             /\ SubSeq(positions', 1, Len(positions)) = positions
             /\ LET top  == signals'[1]
                    new  == positions'[Len(positions')]
                    cost == RAdd(RMul(RMul(R(new.quantity), top.price), Rat(1001, 1000)),
                                 R(2))
                IN  /\ \A k \in 1..Len(signals') : RGe(top.strength, signals'[k].strength)
                    /\ RGe(top.strength, Rat(6, 10))
                    /\ new.direction = top.direction
                    /\ new.stop_loss = top.stop_loss
                    /\ new.take_profit = top.take_profit
                    /\ new.entry_price = RMul(top.price, Rat(1001, 1000))
                    /\ new.entry_date = i
                    /\ new.quantity > 0
                    /\ RLe(cost, capital)
                    /\ capital' = RSub(capital, cost)
                    /\ RGe(capital', R(0))

\* C6: a bar opens a position only for the highest-strength signal of the
\* generated list, only if its strength >= 0.6, its size > 0 and
\* cost = size*price*(1+slippage) + commission <= cash; cash is debited by
\* exactly that cost and is non-negative afterwards; no other signal of the
\* list is admitted.
C6_TopSignalOnly == [][EntryStep]_vars

\* the previous bar opened a position for the first of two signals
C6_Entered ==
    /\ Len(signals) >= 2
    /\ positions /= <<>>
    /\ positions[Len(positions)].entry_date = i - 1
    /\ positions[Len(positions)].stop_loss = signals[1].stop_loss

ReturnStep ==
    /\ pc = "final" =>
          /\ SubSeq(trades', 1, Len(trades)) = trades
          /\ Len(NewTrades) = Len(positions)
          /\ \A k \in 1..Len(positions) :
                LET p == positions[k]
                    t == NewTrades[k]
                IN  /\ t.entry_date = p.entry_date
                    /\ t.exit_reason = "End of backtest"
                    /\ t.exit_date = df.len - 1
                    /\ t.exit_price = ExitPrice(p, R(FinalClose(df)))
                    /\ t.pnl = _calculate_pnl(p, t.exit_price)
          /\ capital' = RAdd(capital, NetOf(NewTrades))
    /\ pc' = "done" =>
          /\ Len(result'.trades) = opened'
          /\ \A j, k \in 1..Len(result'.trades) :
                result'.trades[j].entry_date = result'.trades[k].entry_date => j = k
          /\ \A p \in Range(positions') :
                \E t \in Range(result'.trades) :
                    t.entry_date = p.entry_date /\ t.exit_reason = "End of backtest"

\* C7: when run_backtest returns a result every position ever opened has
\* exactly one Trade: those still open after the last bar are closed at the
\* final close with reason 'End of backtest' and the slippage, P&L and
\* commission accounting of a stop/target exit.
C7_AllClosedAtReturn == [][ReturnStep]_vars

\* a returned log holding both a forced close and an exit in the loop
C7_MixedLog ==
    /\ pc = "done"
    /\ \E t \in Range(trades) : t.exit_reason = "End of backtest"
    /\ \E t \in Range(trades) : t.exit_reason /= "End of backtest"

RECURSIVE HeldValue(_, _)
HeldValue(k, price) ==
    IF k = 0 THEN R(0)
    ELSE RAdd(HeldValue(k - 1, price), RMul(R(positions[k].quantity), price))

EquityStep ==
    /\ IF pc = "equity"
       THEN /\ Len(equity_curve) = i - 100
            /\ equity_curve' = Append(equity_curve,
                   [date            |-> i,
                    equity          |-> RAdd(capital, HeldValue(Len(positions), R(CloseAt(df, i)))),
                    cash            |-> capital,
                    positions_value |-> HeldValue(Len(positions), R(CloseAt(df, i)))])
            /\ pc' = "exits"
            /\ positions' = positions /\ capital' = capital /\ trades' = trades
       ELSE equity_curve' = equity_curve
    /\ pc \in {"exits", "entry"} => Len(equity_curve) = i - 100 + 1
    /\ \A k \in 1..Len(equity_curve') : equity_curve'[k].date = 100 + k - 1
    /\ pc' = "done" =>
          /\ Len(result'.equity_curve) = df.len - 100
          /\ result'.equity_curve = equity_curve'

\* C8: exactly one equity sample per bar from index 100 to the last bar, in
\* bar order; each sample's equity = cash + positions_value with
\* positions_value the sum of quantity * close over the open positions, taken
\* before that bar's exits and entries.
C8_EquityPerBar == [][EquityStep]_vars

\* a returned curve of several samples, one of them with positions held
C8_HeldSample ==
    /\ pc = "done"
    /\ Len(equity_curve) >= 3
    /\ \E k \in 1..Len(equity_curve) : equity_curve[k].positions_value /= R(0)

\* C9: when the historical series is empty run_backtest returns exactly
\* {'error': 'No data available'}: no bar is simulated, no position, trade or
\* equity sample exists and no metric is computed.
C9_EmptyData ==
    df.len = 0 =>
        /\ pc \in {"start", "error"}
        /\ positions = <<>> /\ trades = <<>> /\ equity_curve = <<>> /\ opened = 0
        /\ capital = R(10000)
        /\ pc = "start" => result = NoResult
        /\ pc = "error" => result = [error |-> "No data available"]

\* the empty series has been answered with the error mapping
C9_ErrorReturned == pc = "error" /\ df.len = 0 /\ "error" \in DOMAIN result

CheckOrder(signal, cap, list, out) ==
    LET entry_price == Get(signal, "price", R(0))
        stop_loss   == Get(signal, "stop_loss", R(0))
        take_profit == Get(signal, "take_profit", R(0))
        risk        == RAbs(RSub(entry_price, stop_loss))
        reward      == RAbs(RSub(take_profit, entry_price))
    IN  /\ ~out.raised
        /\ out.valid = (out.reason = "Trade validated")
        /\ out.reason =
             IF Len(list) >= 3 THEN "Maximum number of positions reached"
             ELSE IF calculate_position_size(cap, entry_price, stop_loss, None).size <= 0
                  THEN "Insufficient capital for position"
             ELSE IF RGt(RAdd(_calculate_portfolio_risk(list, cap), Rat(2, 100)), Rat(6, 100))
                  THEN "Would exceed maximum portfolio risk"
             ELSE IF RGt(risk, R(0)) /\ RLt(RDiv(reward, risk), R(2))
                  THEN "Risk/reward ratio below minimum"
             ELSE "Trade validated"

\* C10: validate_trade returns a (valid, reason) pair decided by the first
\* failing check in the order: open positions >= max_positions, computed size
\* <= 0, portfolio risk + risk_per_trade > max_portfolio_risk, reward/risk <
\* take_profit_ratio; (True, 'Trade validated') exactly when none fails.
C10_CheckOrder ==
    vt.called =>
        CheckOrder(vt.signal, vt.capital,
                   EffectivePositions(vt.current_positions, vt.registry), vt.out)

\* the part of C10 the code satisfies: signals that carry an entry price
C10_PricedSignals ==
    (vt.called /\ "price" \in DOMAIN vt.signal) =>
        CheckOrder(vt.signal, vt.capital,
                   EffectivePositions(vt.current_positions, vt.registry), vt.out)

-----------------------------------------------------------------------------
(* RiskManager.calculate_position_size called by a client *)

SizingCapitals == {-100, 0, 100, 10000}

SizingEntries == {0, 100}

SizingStops == {90, 95, 99, 100}

RiskArgs == << None, Some(R(0)), Some(Rat(1, 100)) >>

CalculatePositionSize ==
    \E cap \in SizingCapitals, e \in SizingEntries, s \in SizingStops,
       a \in 1..Len(RiskArgs) :
        /\ call' = [op |-> "calculate_position_size",
                    capital |-> R(cap), entry_price |-> R(e), stop_loss |-> R(s),
                    risk_per_trade |-> RiskArgs[a],
                    out |-> calculate_position_size(R(cap), R(e), R(s), RiskArgs[a])]
        /\ earlier' = call
        /\ UNCHANGED <<pc, df, i, capital, positions, trades, equity_curve,
                       signals, result, opened, run, first, siglog, vt>>

\* Backtester._calculate_position_size with the entry price of a signal, the
\* close of a bar and so positive
BacktestPositionSize ==
    \E cap \in SizingCapitals, e \in SizingEntries \ {0}, s \in SizingStops :
        /\ call' = [op |-> "_calculate_position_size",
                    capital |-> R(cap), entry_price |-> R(e), stop_loss |-> R(s),
                    out |-> _calculate_position_size(R(cap), R(e), R(s))]
        /\ earlier' = call
        /\ UNCHANGED <<pc, df, i, capital, positions, trades, equity_curve,
                       signals, result, opened, run, first, siglog, vt>>

NextSizing ==
    \/ CalculatePositionSize
    \/ BacktestPositionSize

SpecSizing == InitRisk /\ [][NextSizing]_vars

Sized(c) == c.op = "calculate_position_size"

PriceRisk(c) == RAbs(RSub(c.entry_price, c.stop_loss))

\* floor of a non-negative fraction
Floor(a) == a[1] \div a[2]

ClampedSize(c) ==
    LET pct      == IF c.risk_per_trade.given THEN c.risk_per_trade.value ELSE Rat(2, 100)
        by_risk  == Floor(RDiv(RMul(c.capital, pct), PriceRisk(c)))
        by_share == Floor(RDiv(RMul(c.capital, Rat(3, 10)), c.entry_price))
        least    == IF by_risk <= by_share THEN by_risk ELSE by_share
    IN  IF RLe(RMul(R(least), c.entry_price), c.capital) THEN least
        ELSE Floor(RDiv(c.capital, c.entry_price))

BothSized == Sized(call) /\ Sized(earlier) /\ ~call.out.raised /\ ~earlier.out.raised

MonotoneSizes ==
    /\ (/\ BothSized
        /\ earlier.entry_price = call.entry_price /\ earlier.stop_loss = call.stop_loss
        /\ earlier.risk_per_trade = call.risk_per_trade
        /\ RLe(earlier.capital, call.capital))
       => earlier.out.size <= call.out.size
    /\ (/\ BothSized
        /\ earlier.entry_price = call.entry_price /\ earlier.capital = call.capital
        /\ earlier.risk_per_trade = call.risk_per_trade
        /\ RGt(PriceRisk(earlier), R(0))
        /\ RLe(PriceRisk(earlier), PriceRisk(call)))
       => earlier.out.size >= call.out.size
    /\ (Sized(call) /\ call.entry_price = call.stop_loss)
       => (~call.out.raised /\ call.out.size = 0)

\* C12: with the other inputs fixed the size is non-decreasing in capital and
\* non-increasing in |entry - stop| (over positive price risks), and it is 0
\* whenever entry == stop.
C12_Monotone == MonotoneSizes

\* the part of C12 the code satisfies: capitals that are not negative
C12_MonotoneNonNegative ==
    (Sized(call) /\ Sized(earlier)
     /\ RGe(call.capital, R(0)) /\ RGe(earlier.capital, R(0)))
    => MonotoneSizes

\* C13: a call with non-positive capital or non-positive price risk returns
\* exactly 0 and raises nothing.
C13_InvalidInputIsZero ==
    (Sized(call) /\ (RLe(call.capital, R(0)) \/ RLe(PriceRisk(call), R(0))))
    => (~call.out.raised /\ call.out.size = 0)

\* the part of C13 the code satisfies: non-positive price risk
C13_ZeroPriceRisk ==
    (Sized(call) /\ RLe(PriceRisk(call), R(0)))
    => (~call.out.raised /\ call.out.size = 0)

-----------------------------------------------------------------------------
(* RiskManager: take profit, loss limits and the Kelly fraction *)

max_daily_loss == Rat(5, 100)

max_drawdown == Rat(20, 100)

\* str.upper() on the direction strings a client passes
Upper(str) ==
    CASE str = "long"    -> "LONG"
      [] str = "bullish" -> "BULLISH"
      [] str = "short"   -> "SHORT"
      [] str = "bearish" -> "BEARISH"
      [] OTHER           -> str

calculate_take_profit(entry_price, stop_loss, direction, rr_ratio) ==
    LET ratio  == Or(rr_ratio, R(take_profit_ratio))
        risk   == RAbs(RSub(entry_price, stop_loss))
        reward == RMul(risk, ratio)
    IN  IF Upper(direction) \in {"LONG", "BULLISH"}
        THEN RAdd(entry_price, reward)
        ELSE RSub(entry_price, reward)

\* a daily loss test that needs the limit to be exceeded
check_daily_loss_limit_strict(starting_capital, current_capital) ==
    LET loss_pct == IF RGt(starting_capital, R(0))
                    THEN RDiv(RSub(starting_capital, current_capital), starting_capital)
                    ELSE R(0)
    IN  [limit_reached |-> RGt(loss_pct, max_daily_loss), fraction |-> loss_pct]

check_daily_loss_limit(starting_capital, current_capital) ==
    LET loss     == RSub(starting_capital, current_capital)
        loss_pct == IF RGt(starting_capital, R(0)) THEN RDiv(loss, starting_capital)
                    ELSE R(0)
    IN  [limit_reached |-> RGe(loss_pct, max_daily_loss), fraction |-> loss_pct]

check_drawdown_limit(peak_capital, current_capital) ==
    LET drawdown == IF RGt(peak_capital, R(0))
                    THEN RDiv(RSub(peak_capital, current_capital), peak_capital)
                    ELSE R(0)
    IN  [limit_reached |-> RGe(drawdown, max_drawdown), fraction |-> drawdown]

\* avg_win / abs(avg_loss) with avg_win = 0 makes the second division raise
\* ZeroDivisionError: [raised |-> TRUE]
calculate_kelly_criterion(win_rate, avg_win, avg_loss) ==
    IF RLe(avg_loss, R(0)) THEN [raised |-> FALSE, value |-> R(0)]
    ELSE LET win_loss_ratio == RDiv(avg_win, RAbs(avg_loss))
         IN  IF win_loss_ratio = R(0) THEN [raised |-> TRUE]
             ELSE LET kelly_pct == RDiv(RSub(RMul(win_rate, win_loss_ratio),
                                             RSub(R(1), win_rate)),
                                        win_loss_ratio)
                      fractional_kelly == RMul(kelly_pct, Rat(25, 100))
                  IN  [raised |-> FALSE,
                       value |-> RMax(R(0), RMin(fractional_kelly, max_position_size))]

Directions == {"LONG", "BULLISH", "SHORT", "BEARISH", "long", "bearish"}

TargetStops == {95, 100, 105}

Ratios == << None, Some(R(0)), Some(Rat(3, 2)), Some(R(3)) >>

StartingCapitals == {-5, 0, 10000}

CurrentCapitals == {8000, 9500, 9501, 10000, 12000}

WinRates == {R(0), Rat(1, 2), Rat(6, 10), R(1)}

AvgWins == {0, 75, 150}

AvgLosses == {-5, 0, 75}

Others == <<pc, df, i, capital, positions, trades, equity_curve, signals,
            result, opened, run, first, siglog, vt, earlier>>

CalculateTakeProfit ==
    \E s \in TargetStops, d \in Directions, a \in 1..Len(Ratios) :
        /\ call' = [op |-> "calculate_take_profit", entry_price |-> R(100),
                    stop_loss |-> R(s), direction |-> d, rr_ratio |-> Ratios[a],
                    out |-> calculate_take_profit(R(100), R(s), d, Ratios[a])]
        /\ UNCHANGED Others

CheckDailyLossLimit ==
    \E s \in StartingCapitals, c \in CurrentCapitals :
        /\ call' = [op |-> "check_daily_loss_limit", starting |-> s, current |-> c,
                    out |-> check_daily_loss_limit(R(s), R(c))]
        /\ UNCHANGED Others

CheckDrawdownLimit ==
    \E s \in StartingCapitals, c \in CurrentCapitals :
        /\ call' = [op |-> "check_drawdown_limit", peak |-> s, current |-> c,
                    out |-> check_drawdown_limit(R(s), R(c))]
        /\ UNCHANGED Others

CalculateKellyCriterion ==
    \E w \in WinRates, aw \in AvgWins, al \in AvgLosses :
        /\ call' = [op |-> "calculate_kelly_criterion", win_rate |-> w,
                    avg_win |-> R(aw), avg_loss |-> R(al),
                    out |-> calculate_kelly_criterion(w, R(aw), R(al))]
        /\ UNCHANGED Others

NextLimits ==
    \/ CalculateTakeProfit
    \/ CheckDailyLossLimit
    \/ CheckDrawdownLimit
    \/ CalculateKellyCriterion

SpecLimits == InitRisk /\ [][NextLimits]_vars

TargetAt(ratio) ==
    /\ RAbs(RSub(call.out, call.entry_price))
         = RMul(ratio, RAbs(RSub(call.entry_price, call.stop_loss)))
    /\ call.direction \in {"LONG", "BULLISH"} => RGe(call.out, call.entry_price)
    /\ call.direction \in {"SHORT", "BEARISH"} => RLe(call.out, call.entry_price)

\* C14: for every entry, stop, direction and supplied ratio (the configured
\* take_profit_ratio when none is supplied) the take profit is at distance
\* ratio * |entry - stop| from entry, above it for LONG/BULLISH and below it
\* for SHORT/BEARISH.
C14_TakeProfitDistance ==
    call.op = "calculate_take_profit" =>
        TargetAt(IF call.rr_ratio.given THEN call.rr_ratio.value ELSE R(2))

\* the part of C14 the code satisfies: no ratio or a non-zero ratio supplied
C14_NonZeroRatio ==
    (call.op = "calculate_take_profit"
     /\ (call.rr_ratio.given => call.rr_ratio.value /= R(0))) =>
        TargetAt(IF call.rr_ratio.given THEN call.rr_ratio.value ELSE R(2))

\* the fraction (from - to)/from of integers, 0 when from <= 0, and whether it
\* is at least pct per cent
LimitOutcome(from, to, pct) ==
    [limit_reached |-> from > 0 /\ (from - to) * 100 >= pct * from,
     fraction      |-> IF from > 0 THEN Rat(from - to, from) ELSE R(0)]

\* C15: check_daily_loss_limit returns (starting - current)/starting (0 when
\* starting <= 0) and reports the limit exactly when that fraction >= 0.05;
\* check_drawdown_limit returns (peak - current)/peak (0 when peak <= 0) and
\* reports the limit exactly when it is >= 0.20; neither raises.
C15_LossLimits ==
    /\ call.op = "check_daily_loss_limit" =>
          call.out = LimitOutcome(call.starting, call.current, 5)
    /\ call.op = "check_drawdown_limit" =>
          call.out = LimitOutcome(call.peak, call.current, 20)

\* a daily loss of exactly 5% was reported as the limit reached
C15_AtTheLimit ==
    /\ call.op = "check_daily_loss_limit"
    /\ call.starting = 10000 /\ call.current = 9500
    /\ call.out.limit_reached

QuarterKelly(c) ==
    IF RLe(c.avg_loss, R(0)) THEN R(0)
    ELSE LET q == RSub(RMul(c.win_rate, c.avg_win),
                       RMul(RSub(R(1), c.win_rate), c.avg_loss))
             quarter == RDiv(q, RMul(R(4), c.avg_win))
         IN  IF RLt(quarter, R(0)) THEN R(0)
             ELSE IF RGt(quarter, Rat(3, 10)) THEN Rat(3, 10) ELSE quarter

\* C16: for every win rate in [0,1], avgWin >= 0 and avgLoss the Kelly
\* fraction is returned without a fault and lies in [0, 0.3]: 0 when
\* avgLoss <= 0, otherwise clamp(0.25 * fullKelly, 0, 0.3).
C16_QuarterKelly ==
    call.op = "calculate_kelly_criterion" =>
        /\ ~call.out.raised
        /\ call.out.value = QuarterKelly(call)
        /\ RGe(call.out.value, R(0)) /\ RLe(call.out.value, Rat(3, 10))

\* the part of C16 the code satisfies: a positive average win
C16_PositiveAvgWin ==
    (call.op = "calculate_kelly_criterion" /\ RGt(call.avg_win, R(0))) =>
        /\ ~call.out.raised
        /\ call.out.value = QuarterKelly(call)
        /\ RGe(call.out.value, R(0)) /\ RLe(call.out.value, Rat(3, 10))

-----------------------------------------------------------------------------
(* ICTTradingAgent.generate_signals on the patterns and the market structure
   its three detections returned *)

\* a pattern as the detectors emit it, entry price unique per pattern
PatternOf(kind, dir, strength, entry) ==
    [type |-> kind, direction |-> dir, timestamp |-> entry,
     zone_high |-> R(entry + 1), zone_low |-> R(entry - 1),
     entry_price |-> R(entry),
     stop_loss |-> IF dir = "BULLISH" THEN R(entry - 1) ELSE R(entry + 1),
     take_profit |-> IF dir = "BULLISH" THEN R(entry + 2) ELSE R(entry - 2),
     strength |-> strength]

\* the same pattern carrying the volume-confirmation flag
Confirmed(pattern) ==
    [f \in DOMAIN pattern \cup {"volume_confirmation"} |->
        IF f = "volume_confirmation" THEN TRUE ELSE pattern[f]]

GapPool ==
    << PatternOf("Fair Value Gap", "BULLISH", Rat(1, 2), 101),
       PatternOf("Fair Value Gap", "BEARISH", Rat(7, 10), 102),
       PatternOf("Fair Value Gap", "BULLISH", Rat(7, 10), 103),
       Confirmed(PatternOf("Fair Value Gap", "BULLISH", Rat(9, 10), 104)) >>

BlockPool ==
    << PatternOf("Order Block", "BULLISH", Rat(7, 10), 201),
       PatternOf("Order Block", "BEARISH", Rat(7, 10), 202),
       PatternOf("Order Block", "BULLISH", Rat(8, 10), 203) >>

MaxPatterns == 2

\* the lists of at most MaxPatterns patterns of a pool, by index (0: no pattern)
RECURSIVE Picked(_, _)
Picked(pool, picks) ==
    IF picks = <<>> THEN <<>>
    ELSE (IF picks[1] = 0 THEN <<>> ELSE <<pool[picks[1]]>>)
         \o Picked(pool, Tail(picks))

Structures ==
    << [error |-> "No data available"],
       [trend_direction |-> "SIDEWAYS"],
       [trend_direction |-> "UPTREND"],
       [trend_direction |-> "DOWNTREND"] >>

GenerateSignals ==
    \E f \in [1..MaxPatterns -> 0..Len(GapPool)],
       o \in [1..MaxPatterns -> 0..Len(BlockPool)],
       m \in 1..Len(Structures) :
        /\ call = NoInvocation
        /\ call' = [op |-> "generate_signals",
                    fvgs |-> Picked(GapPool, f),
                    order_blocks |-> Picked(BlockPool, o),
                    market_structure |-> Structures[m],
                    out |-> SignalsFrom(Picked(GapPool, f), Picked(BlockPool, o),
                                        Structures[m])]
        /\ UNCHANGED Others

Generated == call.op = "generate_signals"

\* the pattern of the call a signal was made from
IsSourceOf(pattern, signal) ==
    /\ signal.pattern = pattern.type
    /\ signal.direction = pattern.direction
    /\ signal.price = pattern.entry_price
    /\ signal.stop_loss = pattern.stop_loss
    /\ signal.take_profit = pattern.take_profit

Sources == call.fvgs \o call.order_blocks

Trend ==
    IF "trend_direction" \in DOMAIN call.market_structure
    THEN call.market_structure.trend_direction ELSE "UNAVAILABLE"

\* C17: a signal is emitted for a pattern only if the pattern's direction
\* agrees with the trend (UPTREND with BULLISH, DOWNTREND with BEARISH); with
\* a SIDEWAYS trend or no market structure the list is empty; every signal
\* copies direction, entry, stop and target of its source pattern.
C17_TrendAgreement ==
    Generated =>
        /\ Trend \in {"SIDEWAYS", "UNAVAILABLE"} => call.out = <<>>
        /\ \A k \in 1..Len(call.out) :
              /\ \E j \in 1..Len(Sources) : IsSourceOf(Sources[j], call.out[k])
              /\ \/ Trend = "UPTREND" /\ call.out[k].direction = "BULLISH"
                 \/ Trend = "DOWNTREND" /\ call.out[k].direction = "BEARISH"

\* signals were emitted while a pattern against the trend was left out
C17_SomeRejected ==
    /\ Generated
    /\ call.out /= <<>>
    /\ Len(call.out) < Len(Sources)

Flag(pattern) == "volume_confirmation" \in DOMAIN pattern /\ pattern.volume_confirmation

StrengthWith(pattern, bonus) ==
    RMin(R(1), RAdd(RAdd(pattern.strength, bonus),
                    IF Flag(pattern) THEN Rat(1, 10) ELSE R(0)))

\* C18: the strength of every emitted signal is min(1.0, pattern strength +
\* 0.2 + (0.1 if the pattern carries the volume-confirmation flag else 0)).
C18_TrendBonus ==
    Generated =>
        \A k \in 1..Len(call.out) :
            \E j \in 1..Len(Sources) :
                /\ IsSourceOf(Sources[j], call.out[k])
                /\ call.out[k].strength = StrengthWith(Sources[j], Rat(2, 10))

\* what the code computes: the strength without the trend bonus
C18_NoTrendBonus ==
    Generated =>
        \A k \in 1..Len(call.out) :
            \E j \in 1..Len(Sources) :
                /\ IsSourceOf(Sources[j], call.out[k])
                /\ call.out[k].strength = StrengthWith(Sources[j], R(0))

\* the emitted signals in emission order: gap signals, then order-block signals
Emitted ==
    SignalLoop(call.fvgs, call.market_structure, "FVG_ENTRY", "Fair Value Gap")
    \o SignalLoop(call.order_blocks, call.market_structure,
                  "ORDERBLOCK_ENTRY", "Order Block")

\* C19: the returned list is the emitted signals sorted by strength in
\* non-increasing order, signals of equal strength keeping their emission
\* order; the first element has maximum strength.
C19_StableDescending ==
    Generated =>
        /\ Len(call.out) = Len(Emitted)
        /\ \A k, l \in 1..Len(call.out) :
              k < l => RGe(call.out[k].strength, call.out[l].strength)
        /\ \E p \in [1..Len(call.out) -> 1..Len(call.out)] :
              /\ \A k, l \in 1..Len(call.out) : k /= l => p[k] /= p[l]
              /\ \A k \in 1..Len(call.out) : call.out[k] = Emitted[p[k]]
              /\ \A k, l \in 1..Len(call.out) :
                    (k < l /\ call.out[k].strength = call.out[l].strength)
                        => p[k] < p[l]

\* an order-block signal was moved to the front, ahead of a gap signal and an
\* order-block signal of equal strength
C19_TieAndReorder ==
    /\ Generated
    /\ Len(call.out) = 3
    /\ call.out[1].type = "ORDERBLOCK_ENTRY"
    /\ call.out[2].type = "FVG_ENTRY"
    /\ call.out[2].strength = call.out[3].strength

-----------------------------------------------------------------------------
(* PatternDetector called on a window of bars.  The detectors and the agent
   keep no state between calls: a behaviour is one call. *)

liquidity_threshold == Rat(5, 100)

\* abs(values[j] - base) / base <= tolerance, on positive integer prices
Similar(value, base) ==
    RLe(Rat(Abs(value - base), base), liquidity_threshold)

\* the Python indices j in range(k-20, k+21), j /= k, with a similar value
EqualLevels(d, k, field) ==
    {j \in (k - 20)..(k + 20) : j /= k /\ Similar(At(d, j)[field], At(d, k)[field])}

RECURSIVE LevelLoop(_, _, _, _, _)
LevelLoop(d, k, field, level_type, dir) ==
    IF k >= Len(d) - 20 THEN <<>>
    ELSE (IF Cardinality(EqualLevels(d, k, field)) >= 2
          THEN <<[type |-> "Liquidity Pool", level_type |-> level_type,
                  price_level |-> At(d, k)[field], timestamp |-> k,
                  touches |-> Cardinality(EqualLevels(d, k, field)) + 1,
                  strength |-> Rat(Cardinality(EqualLevels(d, k, field)), 10),
                  direction |-> dir]>>
          ELSE <<>>)
         \o LevelLoop(d, k + 1, field, level_type, dir)

\* a detection without the minimum of 50 bars
detect_liquidity_pools_unguarded(d) ==
    LevelLoop(d, 20, "High", "RESISTANCE", "BEARISH")
    \o LevelLoop(d, 20, "Low", "SUPPORT", "BULLISH")

detect_liquidity_pools(d) ==
    IF Len(d) < 50 THEN <<>>
    ELSE LevelLoop(d, 20, "High", "RESISTANCE", "BEARISH")
         \o LevelLoop(d, 20, "Low", "SUPPORT", "BULLISH")

\* 50 bars in a range: open = close = 100, high 101, low 99
RangingMarket == [k \in 1..50 |->
    [Open |-> 100, High |-> 101, Low |-> 99, Close |-> 100, Volume |-> 1000]]

\* 50 bars rising by 6 a bar
TrendingMarket == [k \in 1..50 |->
    [Open |-> 94 + 6 * k, High |-> 100 + 6 * k, Low |-> 90 + 6 * k,
     Close |-> 96 + 6 * k, Volume |-> 1000]]

Windows == << NoData, FallingMarket, RisingMarket, RangingMarket, TrendingMarket >>

DetectFairValueGaps ==
    \E w \in 1..Len(Windows) :
        /\ call = NoInvocation
        /\ call' = [op |-> "detect_fair_value_gaps", window |-> w,
                    out |-> detect_fair_value_gaps(Windows[w])]
        /\ UNCHANGED Others

DetectOrderBlocks ==
    \E w \in 1..Len(Windows) :
        /\ call = NoInvocation
        /\ call' = [op |-> "detect_order_blocks", window |-> w,
                    out |-> detect_order_blocks(Windows[w])]
        /\ UNCHANGED Others

DetectLiquidityPools ==
    \E w \in 1..Len(Windows) :
        /\ call = NoInvocation
        /\ call' = [op |-> "detect_liquidity_pools", window |-> w,
                    out |-> detect_liquidity_pools(Windows[w])]
        /\ UNCHANGED Others

NextAgent ==
    \/ GenerateSignals
    \/ DetectFairValueGaps
    \/ DetectOrderBlocks
    \/ DetectLiquidityPools

SpecAgent == InitRisk /\ [][NextAgent]_vars

InUnit(x) == RGe(x, R(0)) /\ RLe(x, R(1))

\* C20: every pattern emitted by detect_fair_value_gaps, detect_order_blocks
\* and detect_liquidity_pools and every signal emitted by generate_signals
\* has strength in [0, 1].
C20_StrengthInUnit ==
    call.op \in {"detect_fair_value_gaps", "detect_order_blocks",
                 "detect_liquidity_pools", "generate_signals"} =>
        \A k \in 1..Len(call.out) : InUnit(call.out[k].strength)

\* the part of C20 the code satisfies: gaps, order blocks and signals
C20_GapsBlocksSignals ==
    call.op \in {"detect_fair_value_gaps", "detect_order_blocks", "generate_signals"} =>
        \A k \in 1..Len(call.out) : InUnit(call.out[k].strength)

-----------------------------------------------------------------------------
(* The detectors and generate_signals on windows of bars: short windows built
   from a pool of bars, and the first bars of the longer windows.  A behaviour
   is one call. *)

BarPool == Bars(<<
    <<111, 112, 110, 111, 1000>>,     \* low 110
    <<104, 106, 103, 105, 1000>>,     \* closes above its open
    << 99, 100,  98,  99, 1000>>,     \* high 100
    <<2003, 2004, 2002, 2003, 1000>>, \* low 2002
    <<2002, 2003, 2001, 2002, 1000>>, \* low 2001
    <<1999, 2000, 1998, 1999, 1000>>, \* high 2000
    <<2000, 2003, 1999, 2002, 1000>>, \* closes above its open
    <<2002, 2003, 1999, 2000, 1000>>  \* closes below its open
    >>)

MaxWindow == 4

\* df.iloc[:n]
Prefix(d, n) == SubSeq(d, 1, IF n < Len(d) THEN n ELSE Len(d))

PrefixLengths == {0, 1, 2, 3, 19, 20, 22, 41, 45, 49, 50}

Detectors == {"detect_fair_value_gaps", "detect_order_blocks", "detect_liquidity_pools"}

Detect(op, d) ==
    CASE op = "detect_fair_value_gaps" -> detect_fair_value_gaps(d)
      [] op = "detect_order_blocks"    -> detect_order_blocks(d)
      [] op = "detect_liquidity_pools" -> detect_liquidity_pools(d)

GapsInWindow ==
    \E picks \in [1..MaxWindow -> 0..Len(BarPool)] :
        /\ call = NoInvocation
        /\ call' = [op |-> "detect_fair_value_gaps", bars |-> Picked(BarPool, picks),
                    out |-> detect_fair_value_gaps(Picked(BarPool, picks))]
        /\ UNCHANGED Others

DetectOnHistory ==
    \E op \in Detectors, w \in 1..Len(Windows), n \in PrefixLengths :
        /\ call = NoInvocation
        /\ call' = [op |-> op, bars |-> Prefix(Windows[w], n),
                    out |-> Detect(op, Prefix(Windows[w], n))]
        /\ UNCHANGED Others

SignalsOnHistory ==
    \E w \in 1..Len(Windows) :
        /\ call = NoInvocation
        /\ call' = [op |-> "generate_signals", bars |-> Windows[w],
                    out |-> generate_signals(Windows[w], Windows[w], Windows[w])]
        /\ UNCHANGED Others

NextDetect ==
    \/ GapsInWindow
    \/ DetectOnHistory
    \/ SignalsOnHistory

SpecDetect == InitRisk /\ [][NextDetect]_vars

\* C21: each detector returns an empty list for every window shorter than its
\* minimum length, the empty window included: fewer than 3 bars for gaps,
\* fewer than 20 for order blocks, fewer than 50 for liquidity pools.
C21_ShortWindowEmpty ==
    /\ (call.op = "detect_fair_value_gaps" /\ Len(call.bars) < 3) => call.out = <<>>
    /\ (call.op = "detect_order_blocks" /\ Len(call.bars) < 20) => call.out = <<>>
    /\ (call.op = "detect_liquidity_pools" /\ Len(call.bars) < 50) => call.out = <<>>

\* detect_liquidity_pools was called on 49 bars in a range
C21_FortyNineBars ==
    /\ call.op = "detect_liquidity_pools"
    /\ call.bars = Prefix(RangingMarket, 49)
    /\ call.out = <<>>

\* bar k of the window of the call is the middle of a bullish / bearish gap of
\* at least 0.1%
BullishGapAt(k) ==
    LET d == call.bars
    IN  /\ At(d, k - 1).Low > At(d, k + 1).High
        /\ At(d, k).Close > At(d, k).Open
        /\ (At(d, k - 1).Low - At(d, k + 1).High) * 1000 >= At(d, k + 1).High

BearishGapAt(k) ==
    LET d == call.bars
    IN  /\ At(d, k - 1).High < At(d, k + 1).Low
        /\ At(d, k).Close < At(d, k).Open
        /\ (At(d, k + 1).Low - At(d, k - 1).High) * 1000 >= At(d, k - 1).High

\* C22: detect_fair_value_gaps emits, for each interior bar k in increasing
\* order, at most one pattern: a BULLISH gap with entry high[k+1] exactly when
\* low[k-1] > high[k+1], close[k] > open[k] and the gap is >= 0.1% of
\* high[k+1]; a BEARISH gap with entry high[k-1] exactly when high[k-1] <
\* low[k+1], close[k] < open[k] and the gap is >= 0.1% of high[k-1].
C22_GapRule ==
    call.op = "detect_fair_value_gaps" =>
        /\ \A j \in 1..Len(call.out) : call.out[j].timestamp \in 1..(Len(call.bars) - 2)
        /\ \A j, l \in 1..Len(call.out) :
              j < l => call.out[j].timestamp < call.out[l].timestamp
        /\ \A k \in 1..(Len(call.bars) - 2) :
              LET at == {j \in 1..Len(call.out) : call.out[j].timestamp = k}
              IN  /\ Cardinality(at) = IF BullishGapAt(k) \/ BearishGapAt(k) THEN 1 ELSE 0
                  /\ \A j \in at :
                        IF BullishGapAt(k)
                        THEN /\ call.out[j].direction = "BULLISH"
                             /\ call.out[j].entry_price = R(At(call.bars, k + 1).High)
                        ELSE /\ call.out[j].direction = "BEARISH"
                             /\ call.out[j].entry_price = R(At(call.bars, k - 1).High)

\* the window low 110, rising bar, high 100 gave exactly one BULLISH gap with
\* entry 100
C22_OneBullishGap ==
    /\ call.op = "detect_fair_value_gaps"
    /\ Len(call.bars) = 3
    /\ At(call.bars, 0).Low = 110 /\ At(call.bars, 2).High = 100
    /\ Len(call.out) = 1
    /\ call.out[1].direction = "BULLISH"
    /\ call.out[1].entry_price = R(100)

-----------------------------------------------------------------------------
(* The report figures as pure functions of an equity curve or of the pnl
   column of a trade log.  A behaviour is one call. *)

MaxCurve == 4
EquityValues == {0, 9000, 9500, 10000, 11000}

RECURSIVE SeqsUpTo(_, _)
SeqsUpTo(S, n) ==
    IF n = 0 THEN {<<>>}
    ELSE LET shorter == SeqsUpTo(S, n - 1)
         IN  shorter \cup {Append(q, x) : q \in shorter, x \in S}

Rationals(q) == [k \in 1..Len(q) |-> R(q[k])]

CalculateMaxDrawdown ==
    \E q \in SeqsUpTo(EquityValues, MaxCurve) :
        /\ call = NoInvocation
        /\ call' = [op |-> "_calculate_max_drawdown", equity_values |-> Rationals(q),
                    out |-> _calculate_max_drawdown(Rationals(q))]
        /\ UNCHANGED Others

\* the largest of the first k values
RECURSIVE RunningPeak(_, _)
RunningPeak(values, k) ==
    IF k = 1 THEN values[1] ELSE RMax(RunningPeak(values, k - 1), values[k])

\* (running peak - value) / running peak at sample k, 0 when the peak is 0
DrawdownAt(values, k) ==
    LET peak == RunningPeak(values, k)
    IN  IF peak = R(0) THEN R(0) ELSE RDiv(RSub(peak, values[k]), peak)

LargestDrawdown(values) ==
    IF values = <<>> THEN R(0)
    ELSE LET all == {DrawdownAt(values, k) : k \in 1..Len(values)}
         IN  CHOOSE m \in all : \A x \in all : RLe(x, m)

\* C23: the maximum drawdown of an equity curve is the largest, over its
\* samples, of (running peak - value) / running peak; it is 0 for an empty
\* curve and 0, never a division fault, when the running peak is 0.
C23_MaxDrawdown ==
    call.op = "_calculate_max_drawdown" =>
        /\ ~call.out.raised
        /\ call.out.value = LargestDrawdown(call.equity_values)

\* whenever the function returns, it returns the largest drawdown; the curve
\* 10000, 11000, 9000, 9500 gives 2000/11000
C23_WhenItReturns ==
    (call.op = "_calculate_max_drawdown" /\ ~call.out.raised) =>
        /\ call.out.value = LargestDrawdown(call.equity_values)
        /\ call.equity_values = <<R(10000), R(11000), R(9000), R(9500)>>
              => call.out.value = Rat(2, 11)

MaxLog == 4
Pnls == {-50, 0, 50}

Larger(a, b) == IF a >= b THEN a ELSE b

\* PerformanceReporter._calculate_streaks: the loop over the pnl series
RECURSIVE StreakLoop(_, _, _, _, _)
StreakLoop(pnl_series, win_streak, loss_streak, current_win, current_loss) ==
    IF pnl_series = <<>> THEN [max_win_streak |-> win_streak, max_loss_streak |-> loss_streak]
    ELSE LET pnl == pnl_series[1]
         IN  IF pnl > 0
             THEN StreakLoop(Tail(pnl_series), Larger(win_streak, current_win + 1),
                             loss_streak, current_win + 1, 0)
             ELSE IF pnl < 0
             THEN StreakLoop(Tail(pnl_series), win_streak,
                             Larger(loss_streak, current_loss + 1), 0, current_loss + 1)
             ELSE StreakLoop(Tail(pnl_series), win_streak, loss_streak,
                             current_win, current_loss)

_calculate_streaks(pnl_series) == StreakLoop(pnl_series, 0, 0, 0, 0)

\* generate_trade_report on a trade log with these pnl values: the 'streaks'
\* entry of the report
GenerateTradeReport ==
    \E q \in SeqsUpTo(Pnls, MaxLog) \ {<<>>} :
        /\ call = NoInvocation
        /\ call' = [op |-> "generate_trade_report", pnl |-> q,
                    out |-> _calculate_streaks(q)]
        /\ UNCHANGED Others

NextReport ==
    \/ CalculateMaxDrawdown
    \/ GenerateTradeReport

SpecReport == InitRisk /\ [][NextReport]_vars

\* the length of the longest run of consecutive elements of q in S
LongestRun(q, S) ==
    LET runs == {n \in 0..Len(q) :
                    \E a \in 1..(Len(q) - n + 1) : \A k \in a..(a + n - 1) : q[k] \in S}
    IN  CHOOSE n \in runs : \A m \in runs : m <= n

\* C24: in the trade report max_win_streak is the length of the longest run of
\* consecutive trades with pnl > 0 and max_loss_streak the length of the
\* longest run of consecutive losing trades; a trade that is not a win ends
\* the win streak and a trade that is not a loss ends the loss streak.
C24_Streaks ==
    call.op = "generate_trade_report" =>
        /\ call.out.max_win_streak = LongestRun(call.pnl, {50})
        /\ call.out.max_loss_streak = LongestRun(call.pnl, {-50})

\* on logs without a trade of pnl 0 the streaks are the longest runs
C24_WithoutBreakEven ==
    (call.op = "generate_trade_report" /\ \A k \in 1..Len(call.pnl) : call.pnl[k] # 0) =>
        /\ call.out.max_win_streak = LongestRun(call.pnl, {50})
        /\ call.out.max_loss_streak = LongestRun(call.pnl, {-50})

-----------------------------------------------------------------------------
(* The two sizing functions on the same arguments *)

\* the Risk Manager sized a trade with its default risk and the backtest then
\* sized the same trade
SameTrade ==
    /\ Sized(earlier) /\ earlier.risk_per_trade = None
    /\ call.op = "_calculate_position_size"
    /\ call.capital = earlier.capital
    /\ call.entry_price = earlier.entry_price
    /\ call.stop_loss = earlier.stop_loss

\* C25: for every non-negative capital, positive entry price and stop price,
\* Backtester._calculate_position_size returns the same integer as
\* RiskManager.calculate_position_size under the default risk configuration.
C25_SameSize ==
    (SameTrade /\ RGe(call.capital, R(0)) /\ RGt(call.entry_price, R(0))) =>
        /\ ~earlier.out.raised
        /\ call.out = earlier.out.size

\* both sized capital 10000, entry 100: 20 units for the stop 90 (the risk
\* limit) or 30 units for the stop 95 (the position limit)
C25_BothLimits ==
    /\ SameTrade
    /\ call.capital = R(10000) /\ call.entry_price = R(100)
    /\ \/ call.stop_loss = R(90) /\ call.out = 20 /\ earlier.out.size = 20
       \/ call.stop_loss = R(95) /\ call.out = 30 /\ earlier.out.size = 30

-----------------------------------------------------------------------------
(* The prices of the emitted patterns and signals *)

RewardRisk(signal) ==
    RDiv(RAbs(RSub(signal.take_profit, signal.price)),
         RAbs(RSub(signal.price, signal.stop_loss)))

\* C26: every signal generate_signals produces whose price risk
\* |entry - stop| is non-zero has reward/risk >= take_profit_ratio (2), so
\* the risk/reward check of validate_trade never rejects it.
C26_InternalRewardRisk ==
    call.op = "generate_signals" =>
        \A k \in 1..Len(call.out) :
            LET signal == call.out[k]
            IN  signal.price # signal.stop_loss =>
                    /\ RGe(RewardRisk(signal), R(take_profit_ratio))
                    /\ validate_trade(signal, R(initial_capital), Given(<<>>), <<>>).reason
                           # "Risk/reward ratio below minimum"

\* the signals of bullish gaps and of order blocks do have reward/risk >= 2
C26_BullishGapsAndBlocks ==
    call.op = "generate_signals" =>
        \A k \in 1..Len(call.out) :
            LET signal == call.out[k]
            IN  (signal.direction = "BULLISH" \/ signal.type = "ORDERBLOCK_ENTRY") =>
                    RGe(RewardRisk(signal), R(take_profit_ratio))

\* C27: validate_trade evaluates exactly the position list the caller gives,
\* an empty list included; the registry counts only when the argument is
\* omitted, so a call with the list [] is never rejected for position count
\* or portfolio risk.
C27_GivenListOnly ==
    (vt.called /\ vt.current_positions.given) =>
        /\ vt.out = validate_trade(vt.signal, vt.capital, vt.current_positions, <<>>)
        /\ (vt.current_positions.list = <<>> /\ ~vt.out.raised) =>
              vt.out.reason \notin {"Maximum number of positions reached",
                                    "Would exceed maximum portfolio risk"}

\* with a non-empty list given the registry has no influence
C27_NonEmptyList ==
    (vt.called /\ vt.current_positions.given /\ vt.current_positions.list # <<>>) =>
        vt.out = validate_trade(vt.signal, vt.capital, vt.current_positions, <<>>)

Protective(pattern) ==
    IF pattern.direction = "BULLISH"
    THEN RLt(pattern.stop_loss, pattern.entry_price)
         /\ RLt(pattern.entry_price, pattern.take_profit)
    ELSE RLt(pattern.take_profit, pattern.entry_price)
         /\ RLt(pattern.entry_price, pattern.stop_loss)

\* C28: every pattern of detect_fair_value_gaps and detect_order_blocks has
\* stop_loss < entry_price < take_profit when BULLISH and
\* take_profit < entry_price < stop_loss when BEARISH.
C28_ProtectiveStop ==
    call.op \in {"detect_fair_value_gaps", "detect_order_blocks"} =>
        \A k \in 1..Len(call.out) : Protective(call.out[k])

\* bearish gaps and order blocks of both directions have their stop and target
\* on the right sides
C28_BearishGapsAndBlocks ==
    call.op \in {"detect_fair_value_gaps", "detect_order_blocks"} =>
        \A k \in 1..Len(call.out) :
            (call.out[k].direction = "BEARISH" \/ call.op = "detect_order_blocks")
                => Protective(call.out[k])

-----------------------------------------------------------------------------
(* The cash of a run and the order of the steps within a bar *)

\* C29: when the run ends, final_capital - initial_capital equals the sum of
\* the realized pnl of all trades minus one commission per entry and one per
\* exit: the cash debited at an entry is returned at the exit.
C29_CashConserved ==
    pc = "done" =>
        RSub(result.final_capital, R(initial_capital))
            = RSub(SumPnl(result.trades), R(2 * commission * Len(result.trades)))

\* what the cash does lose: besides the commissions, the purchase cost
\* quantity * entry_price of every trade
RECURSIVE SumCost(_)
SumCost(list) ==
    IF list = <<>> THEN R(0)
    ELSE RAdd(RMul(R(list[1].quantity), list[1].entry_price), SumCost(Tail(list)))

C29_PrincipalKept ==
    pc = "done" =>
        RSub(result.final_capital, R(initial_capital))
            = RSub(RSub(SumPnl(result.trades), R(2 * commission * Len(result.trades))),
                   SumCost(result.trades))

\* the trades of this step that close position p
ClosesOf(p) == {j \in 1..Len(NewTrades) : NewTrades[j].entry_date = p.entry_date}

BarStep ==
    /\ pc = "equity" =>
          /\ pc' = "exits"
          /\ Len(equity_curve') = Len(equity_curve) + 1
          /\ UNCHANGED <<positions, trades, capital>>
    /\ pc = "exits" =>
          /\ pc' = "entry"
          /\ equity_curve' = equity_curve
          /\ \A k \in 1..Len(positions) :
                /\ positions[k].entry_date < i
                /\ IF _check_exit_signal(positions[k], R(CloseAt(df, i))) = "None"
                   THEN positions[k] \in Range(positions') /\ ClosesOf(positions[k]) = {}
                   ELSE positions[k] \notin Range(positions')
                        /\ Cardinality(ClosesOf(positions[k])) = 1
          /\ Len(NewTrades) + Len(positions') = Len(positions)
          /\ \A j, l \in 1..Len(trades') :
                j < l => trades'[j].entry_date # trades'[l].entry_date
    /\ pc = "entry" =>
          /\ pc' \in {"equity", "final"}
          /\ i' = i + 1
          /\ trades' = trades /\ equity_curve' = equity_curve
          /\ \/ positions' = positions
             \/ /\ Len(positions) < BacktestMaxOpen
                /\ Len(positions') = Len(positions) + 1
                /\ SubSeq(positions', 1, Len(positions)) = positions
                /\ positions'[Len(positions')].entry_date = i

\* C30: within a bar the steps are equity sample, exits, entry; every position
\* open at the start of the bar is evaluated for exit exactly once, no
\* position is closed twice, the entry sees the slots the exits freed, and a
\* position opened at bar i is first evaluated at a later bar.
C30_BarOrder == [][BarStep]_vars

\* a bar closed one of three open positions and opened a new one
C30_SlotRefilled ==
    /\ pc \in {"equity", "final"}
    /\ Len(positions) = BacktestMaxOpen
    /\ positions[Len(positions)].entry_date = i - 1
    /\ \E k \in 1..Len(trades) : trades[k].exit_date = i - 1

\* a bar closed two positions
C30_TwoClosed ==
    /\ pc = "entry"
    /\ \E j, l \in 1..Len(trades) :
          j < l /\ trades[j].exit_date = i /\ trades[l].exit_date = i

=============================================================================
